---------------------------- MODULE Spec2Model ----------------------------
(***************************************************************************)
(* Model of the suffix tree of include/SuffixTree.h (Ukkonen's online      *)
(* construction over a template alphabet, include/Alphabet.h) and of its   *)
(* substring queries index_of / contains.                                  *)
(*                                                                         *)
(* Bytes are the values of a C++ `char` as a signed 8-bit integer.         *)
(* Strings are sequences of bytes; the C++ index i is the TLA+ index i+1.  *)
(* The program is built as the README says (g++ -std=c++17, no -DNDEBUG),  *)
(* so every assert of the source is checked: a failing assert aborts.      *)
(* An access outside a container (undefined behaviour) is either followed  *)
(* with the value read chosen nondeterministically (the accesses the       *)
(* program really makes on ordinary inputs) or ends the run in the status  *)
(* "undefined".                                                            *)
(***************************************************************************)
EXTENDS Integers, Sequences, FiniteSets, TLC

(***************************************************************************)
(* Bounds of the model.                                                    *)
(***************************************************************************)
\* longest source string drawn from the alphabet's letters
MaxSourceLen == 4
\* longest source string drawn from every byte of the model
MaxAnyLen == 1
\* longest query pattern
MaxPatternLen == 3
\* number of trees constructed one after the other in the process
MaxBuilds == 2
\* longest source of a process that constructs one tree only
MaxDeepLen == 6

(***************************************************************************)
(* Bytes and the alphabet                                                  *)
(***************************************************************************)
terminal_symbol == 0
\* 'a', 'b': the letters given to SuffixTreeAlphabet<...> in this model
LetterA == 97
LetterB == 98
\* 'A': a 7-bit byte that is not in the alphabet
LowOutsider == 65
\* 0x80 as a signed char: a byte that is not in the alphabet and is negative
HighOutsider == -128

max_alphabet_size == 256
no_connection == -1
\* the value of a member no constructor has written (Node::suffix_connection)
indeterminate == -1000

\* SuffixTreeAlphabet<letters...> = Alphabet<terminal_symbol, letters...>
Letters == <<terminal_symbol, LetterA, LetterB>>

Alphabet_size == Len(Letters)

\* Alphabet::is_exist
is_exist(c) == \E i \in 1..Len(Letters) : Letters[i] = c

\* Alphabet::indices(): -1 everywhere, then indices[letter] = position
indices ==
    [c \in 0..(max_alphabet_size - 1) |->
        IF \E i \in 1..Len(Letters) : Letters[i] = c
        THEN (CHOOSE i \in 1..Len(Letters) : Letters[i] = c) - 1
        ELSE -1]

Bytes == {terminal_symbol, LetterA, LetterB, LowOutsider, HighOutsider}
SourceLetters == {LetterA, LetterB}

RECURSIVE StringsUpTo(_, _)
StringsUpTo(S, n) ==
    IF n = 0 THEN {<<>>}
    ELSE LET shorter == StringsUpTo(S, n - 1)
         IN  shorter \cup {Append(s, c) : s \in {t \in shorter : Len(t) = n - 1}, c \in S}

\* the sources the caller may pass to the constructor
Sources == StringsUpTo(SourceLetters, MaxSourceLen) \cup StringsUpTo(Bytes, MaxAnyLen)
\* the patterns the caller may pass to index_of
Patterns == StringsUpTo(Bytes, MaxPatternLen)
\* the sources of a process that constructs one tree: strings of letters
DeepSources == StringsUpTo(SourceLetters, MaxDeepLen)

\* what the README build reads at char_to_index[(char)0x80], in front of the
\* array: bytes of other read-only data, a value that is no slot of edges_to_childs
StrayIndex == 1684631414
\* the values an out-of-range read of char_to_index may produce: one negative,
\* one that looks like a dense index, one that is not negative and names no slot
OutOfRangeIndices == {-1, 0, StrayIndex}
\* the values an out-of-range read of an Edge's start_position produces: the build
\* reads the upper half of the allocator's word in front of the arena, which is 0
OutOfRangeStarts == {0}
\* the values an out-of-range read of an Edge's length may produce: nothing, or
\* more than any edge of the tree has (the allocator's size word in front of the arena)
OutOfRangeLengths == {0, 33}
\* the Edge records edge_allocator[-1] may produce
OutOfRangeEdges ==
    [start_position : OutOfRangeStarts, length : OutOfRangeLengths, next_node_addr : {0}]

VARIABLES
    char_to_index_oob,    \* what memory holds where char_to_index[c] reads for c < 0
                          \* (Bytes has one negative byte)
    leaf_addr_allocator,  \* the function-local static of create_new_edge_to_leaf_from_node
    builds,               \* number of constructor calls made so far
    expanded_string,      \* SuffixTree::expanded_string
    root_addr,            \* SuffixTree::root_addr
    node_allocator,       \* SuffixTree::node_allocator
    edge_allocator,       \* SuffixTree::edge_allocator
    iterator,             \* construct_tree's InnerPosition
    pos,                  \* construct_tree's loop variable
    last_node_addr,       \* second_stage's local
    pc,                   \* where the constructor is, or how it ended
    bad_edge_refs,        \* edge references dereferenced in this build that index no edge
    first,                \* the tree kept by the caller across a rebuild
    query                 \* the last index_of call on the tree and its outcome

vars == <<char_to_index_oob, leaf_addr_allocator, builds, expanded_string, root_addr,
          node_allocator, edge_allocator, iterator, pos, last_node_addr, pc,
          bad_edge_refs, first, query>>

(***************************************************************************)
(* Alphabet.h                                                              *)
(***************************************************************************)
\* Alphabet::index_of: char_to_index[c], the char converted to the array's size_type;
\* a negative char indexes outside the array
Alphabet_index_of(c) ==
    IF c \in 0..(max_alphabet_size - 1) THEN indices[c] ELSE char_to_index_oob

\* Alphabet::is_alphabet_of
is_alphabet_of(str) == \A i \in 1..Len(str) : ~(Alphabet_index_of(str[i]) < 0)


(***************************************************************************)
(* SuffixTree.h: the arenas and the small accessors                        *)
(***************************************************************************)
\* Node::Node(): every child slot no_connection, suffix_connection not written
Node == [suffix_connection |-> indeterminate,
         edges_to_childs   |-> [i \in 1..Alphabet_size |-> no_connection]]

\* allocate_node / allocate_edge: emplace_back, the new slot's index is the old size
allocate_node(nodes) == Append(nodes, Node)
allocate_edge(edges) == Append(edges, [start_position |-> 0, length |-> 0, next_node_addr |-> 0])

\* whether ref indexes an element of the vector (what operator[] requires)
is_node_ref(nodes, ref) == ref \in 0..(Len(nodes) - 1)
is_edge_ref(edges, ref) == ref \in 0..(Len(edges) - 1)
get_node_by(nodes, ref) == nodes[ref + 1]
get_edge_by(edges, ref) == edges[ref + 1]

\* a dense index that names a slot of edges_to_childs
is_slot(idx) == idx \in 0..(Alphabet_size - 1)
child_of(node, idx) == node.edges_to_childs[idx + 1]

is_leaf(ref) == ref < 0
\* leaf_num_of: [status, value]; the assert of line 232 fails on a node reference
leaf_num_of(ref) ==
    IF ~is_leaf(ref) THEN [status |-> "assert", value |-> indeterminate]
    ELSE [status |-> "ok", value |-> -ref - 1]

\* std::string::operator[]: defined for 0..size(), str[size()] is '\0'
is_char_pos(str, i) == i \in 0..Len(str)
char_at(str, i) == IF i = Len(str) THEN 0 ELSE str[i + 1]

\* length_to_end_from that measures to the end of the source, not of the expanded
\* string (the terminal symbol is left out)
length_to_end_from_source_end(str, start_pos) == Len(str) - 1 - start_pos

length_to_end_from(str, start_pos) == Len(str) - start_pos

get_dummy(nodes, root) == get_node_by(nodes, root).suffix_connection
is_dummy(nodes, root, node_addr) == node_addr = get_node_by(nodes, root).suffix_connection

\* create_dummy_node without line 260: the dummy's suffix connection is left as
\* Node() leaves it
create_dummy_node_without_self_connection(nodes, edges, root) ==
    LET dummy_addr == Len(nodes)
        first_edge == Len(edges)
        dummy == [suffix_connection |-> indeterminate,
                  edges_to_childs   |-> [i \in 1..Alphabet_size |-> first_edge + i - 1]]
    IN  [nodes |-> Append(nodes, dummy),
         edges |-> edges \o [i \in 1..Alphabet_size |->
                        [start_position |-> -1, length |-> 1, next_node_addr |-> root]],
         dummy_addr |-> dummy_addr]

\* create_dummy_node with the dummy's edges leading to the dummy itself
\* (`dummy_addr` for `root_addr` in line 274): a step from the dummy stays there
create_dummy_node_edges_to_dummy(nodes, edges, root) ==
    LET dummy_addr == Len(nodes)
        first_edge == Len(edges)
        dummy == [suffix_connection |-> dummy_addr,
                  edges_to_childs   |-> [i \in 1..Alphabet_size |-> first_edge + i - 1]]
    IN  [nodes |-> Append(nodes, dummy),
         edges |-> edges \o [i \in 1..Alphabet_size |->
                        [start_position |-> -1, length |-> 1, next_node_addr |-> dummy_addr]],
         dummy_addr |-> dummy_addr]

\* create_dummy_node without line 273: the dummy's edges keep the length 0 that
\* allocate_edge gives them
create_dummy_node_zero_length(nodes, edges, root) ==
    LET dummy_addr == Len(nodes)
        first_edge == Len(edges)
        dummy == [suffix_connection |-> dummy_addr,
                  edges_to_childs   |-> [i \in 1..Alphabet_size |-> first_edge + i - 1]]
    IN  [nodes |-> Append(nodes, dummy),
         edges |-> edges \o [i \in 1..Alphabet_size |->
                        [start_position |-> -1, length |-> 0, next_node_addr |-> root]],
         dummy_addr |-> dummy_addr]

\* create_dummy_node, called with the root already allocated: the dummy, its own
\* suffix connection, and one edge of length 1 to the root per alphabet symbol
create_dummy_node(nodes, edges, root) ==
    LET dummy_addr == Len(nodes)
        first_edge == Len(edges)
        dummy == [suffix_connection |-> dummy_addr,
                  edges_to_childs   |-> [i \in 1..Alphabet_size |-> first_edge + i - 1]]
    IN  [nodes |-> Append(nodes, dummy),
         edges |-> edges \o [i \in 1..Alphabet_size |->
                        [start_position |-> -1, length |-> 1, next_node_addr |-> root]],
         dummy_addr |-> dummy_addr]

(***************************************************************************)
(* The construction steps work on a record m of the builder's state:       *)
(*   nodes, edges, it (the InnerPosition), leaf (the static counter),      *)
(*   ret (the last function's return value), bad (out-of-range edge        *)
(*   references dereferenced), status: "ok", "assert" (an assert failed)   *)
(*   or "undefined" (an out-of-range access the model does not follow).    *)
(***************************************************************************)
Fail(m, how) == [m EXCEPT !.status = how]

\* add_node_in without line 431: the split edge leads to the new node and keeps
\* its old length
add_node_in_length_not_cut(m) ==
    LET edges1 == allocate_edge(m.edges)
        nodes1 == allocate_node(m.nodes)
        new_edge_addr == Len(edges1) - 1
        new_node_addr == Len(nodes1) - 1
        it == m.it
        \* lines 403-404 have run when an assert fails
        m0 == [m EXCEPT !.nodes = nodes1, !.edges = edges1]
    IN  IF ~is_edge_ref(edges1, it.edge_addr) THEN Fail(m0, "undefined")
        ELSE
        LET edge == get_edge_by(edges1, it.edge_addr)
            ch_pos == edge.start_position + it.position
        IN  IF edge.start_position < 0 THEN Fail(m0, "assert")
            ELSE IF ~(it.position > 0) THEN Fail(m0, "assert")
            ELSE IF ~(it.position < edge.length) THEN Fail(m0, "assert")
            ELSE IF ~is_char_pos(expanded_string, ch_pos) THEN Fail(m0, "undefined")
            ELSE
            LET ch == char_at(expanded_string, ch_pos)
                idx == Alphabet_index_of(ch)
                new_edge == [start_position |-> ch_pos,
                             length |-> edge.length - it.position,
                             next_node_addr |-> edge.next_node_addr]
            IN  IF ~is_slot(idx) THEN Fail(m0, "undefined")
                ELSE [m EXCEPT
                        !.nodes = [nodes1 EXCEPT
                            ![new_node_addr + 1].edges_to_childs[idx + 1] = new_edge_addr],
                        !.edges = [edges1 EXCEPT
                            ![new_edge_addr + 1] = new_edge,
                            ![it.edge_addr + 1].next_node_addr = new_node_addr],
                        !.ret = new_node_addr]

\* add_node_in whose new edge starts where the split edge starts
\* (`edge.start_position` for `ch_pos` in line 420)
add_node_in_start_not_moved(m) ==
    LET edges1 == allocate_edge(m.edges)
        nodes1 == allocate_node(m.nodes)
        new_edge_addr == Len(edges1) - 1
        new_node_addr == Len(nodes1) - 1
        it == m.it
        \* lines 403-404 have run when an assert fails
        m0 == [m EXCEPT !.nodes = nodes1, !.edges = edges1]
    IN  IF ~is_edge_ref(edges1, it.edge_addr) THEN Fail(m0, "undefined")
        ELSE
        LET edge == get_edge_by(edges1, it.edge_addr)
            ch_pos == edge.start_position + it.position
        IN  IF edge.start_position < 0 THEN Fail(m0, "assert")
            ELSE IF ~(it.position > 0) THEN Fail(m0, "assert")
            ELSE IF ~(it.position < edge.length) THEN Fail(m0, "assert")
            ELSE IF ~is_char_pos(expanded_string, ch_pos) THEN Fail(m0, "undefined")
            ELSE
            LET ch == char_at(expanded_string, ch_pos)
                idx == Alphabet_index_of(ch)
                new_edge == [start_position |-> edge.start_position,
                             length |-> edge.length - it.position,
                             next_node_addr |-> edge.next_node_addr]
            IN  IF ~is_slot(idx) THEN Fail(m0, "undefined")
                ELSE [m EXCEPT
                        !.nodes = [nodes1 EXCEPT
                            ![new_node_addr + 1].edges_to_childs[idx + 1] = new_edge_addr],
                        !.edges = [edges1 EXCEPT
                            ![new_edge_addr + 1] = new_edge,
                            ![it.edge_addr + 1].length = it.position,
                            ![it.edge_addr + 1].next_node_addr = new_node_addr],
                        !.ret = new_node_addr]

\* add_node_in that files the new edge under the first character of the split edge
\* (`expanded_string[edge.start_position]` for `expanded_string[ch_pos]` in line 414)
add_node_in_slot_of_first_char(m) ==
    LET edges1 == allocate_edge(m.edges)
        nodes1 == allocate_node(m.nodes)
        new_edge_addr == Len(edges1) - 1
        new_node_addr == Len(nodes1) - 1
        it == m.it
        \* lines 403-404 have run when an assert fails
        m0 == [m EXCEPT !.nodes = nodes1, !.edges = edges1]
    IN  IF ~is_edge_ref(edges1, it.edge_addr) THEN Fail(m0, "undefined")
        ELSE
        LET edge == get_edge_by(edges1, it.edge_addr)
            ch_pos == edge.start_position + it.position
        IN  IF edge.start_position < 0 THEN Fail(m0, "assert")
            ELSE IF ~(it.position > 0) THEN Fail(m0, "assert")
            ELSE IF ~(it.position < edge.length) THEN Fail(m0, "assert")
            ELSE IF ~is_char_pos(expanded_string, ch_pos) THEN Fail(m0, "undefined")
            ELSE
            LET ch == char_at(expanded_string, edge.start_position)
                idx == Alphabet_index_of(ch)
                new_edge == [start_position |-> ch_pos,
                             length |-> edge.length - it.position,
                             next_node_addr |-> edge.next_node_addr]
            IN  IF ~is_slot(idx) THEN Fail(m0, "undefined")
                ELSE [m EXCEPT
                        !.nodes = [nodes1 EXCEPT
                            ![new_node_addr + 1].edges_to_childs[idx + 1] = new_edge_addr],
                        !.edges = [edges1 EXCEPT
                            ![new_edge_addr + 1] = new_edge,
                            ![it.edge_addr + 1].length = it.position,
                            ![it.edge_addr + 1].next_node_addr = new_node_addr],
                        !.ret = new_node_addr]

\* add_node_in without line 432: the split edge is shortened but still leads to
\* its old child, and no edge leads to the new node
add_node_in_edge_not_redirected(m) ==
    LET edges1 == allocate_edge(m.edges)
        nodes1 == allocate_node(m.nodes)
        new_edge_addr == Len(edges1) - 1
        new_node_addr == Len(nodes1) - 1
        it == m.it
        \* lines 403-404 have run when an assert fails
        m0 == [m EXCEPT !.nodes = nodes1, !.edges = edges1]
    IN  IF ~is_edge_ref(edges1, it.edge_addr) THEN Fail(m0, "undefined")
        ELSE
        LET edge == get_edge_by(edges1, it.edge_addr)
            ch_pos == edge.start_position + it.position
        IN  IF edge.start_position < 0 THEN Fail(m0, "assert")
            ELSE IF ~(it.position > 0) THEN Fail(m0, "assert")
            ELSE IF ~(it.position < edge.length) THEN Fail(m0, "assert")
            ELSE IF ~is_char_pos(expanded_string, ch_pos) THEN Fail(m0, "undefined")
            ELSE
            LET ch == char_at(expanded_string, ch_pos)
                idx == Alphabet_index_of(ch)
                new_edge == [start_position |-> ch_pos,
                             length |-> edge.length - it.position,
                             next_node_addr |-> edge.next_node_addr]
            IN  IF ~is_slot(idx) THEN Fail(m0, "undefined")
                ELSE [m EXCEPT
                        !.nodes = [nodes1 EXCEPT
                            ![new_node_addr + 1].edges_to_childs[idx + 1] = new_edge_addr],
                        !.edges = [edges1 EXCEPT
                            ![new_edge_addr + 1] = new_edge,
                            ![it.edge_addr + 1].length = it.position],
                        !.ret = new_node_addr]

\* add_node_in whose new edge keeps the whole length of the split edge
\* (`edge.length` for `edge.length - iterator.position` in line 419)
add_node_in_keeps_length(m) ==
    LET edges1 == allocate_edge(m.edges)
        nodes1 == allocate_node(m.nodes)
        new_edge_addr == Len(edges1) - 1
        new_node_addr == Len(nodes1) - 1
        it == m.it
        \* lines 403-404 have run when an assert fails
        m0 == [m EXCEPT !.nodes = nodes1, !.edges = edges1]
    IN  IF ~is_edge_ref(edges1, it.edge_addr) THEN Fail(m0, "undefined")
        ELSE
        LET edge == get_edge_by(edges1, it.edge_addr)
            ch_pos == edge.start_position + it.position
        IN  IF edge.start_position < 0 THEN Fail(m0, "assert")
            ELSE IF ~(it.position > 0) THEN Fail(m0, "assert")
            ELSE IF ~(it.position < edge.length) THEN Fail(m0, "assert")
            ELSE IF ~is_char_pos(expanded_string, ch_pos) THEN Fail(m0, "undefined")
            ELSE
            LET ch == char_at(expanded_string, ch_pos)
                idx == Alphabet_index_of(ch)
                new_edge == [start_position |-> ch_pos,
                             length |-> edge.length,
                             next_node_addr |-> edge.next_node_addr]
            IN  IF ~is_slot(idx) THEN Fail(m0, "undefined")
                ELSE [m EXCEPT
                        !.nodes = [nodes1 EXCEPT
                            ![new_node_addr + 1].edges_to_childs[idx + 1] = new_edge_addr],
                        !.edges = [edges1 EXCEPT
                            ![new_edge_addr + 1] = new_edge,
                            ![it.edge_addr + 1].length = it.position,
                            ![it.edge_addr + 1].next_node_addr = new_node_addr],
                        !.ret = new_node_addr]

\* add_node_in: split the iterator's edge at the iterator's position
add_node_in(m) ==
    LET edges1 == allocate_edge(m.edges)
        nodes1 == allocate_node(m.nodes)
        new_edge_addr == Len(edges1) - 1
        new_node_addr == Len(nodes1) - 1
        it == m.it
        \* lines 403-404 have run when an assert fails
        m0 == [m EXCEPT !.nodes = nodes1, !.edges = edges1]
    IN  IF ~is_edge_ref(edges1, it.edge_addr) THEN Fail(m0, "undefined")
        ELSE
        LET edge == get_edge_by(edges1, it.edge_addr)
            ch_pos == edge.start_position + it.position
        IN  IF edge.start_position < 0 THEN Fail(m0, "assert")
            ELSE IF ~(it.position > 0) THEN Fail(m0, "assert")
            ELSE IF ~(it.position < edge.length) THEN Fail(m0, "assert")
            ELSE IF ~is_char_pos(expanded_string, ch_pos) THEN Fail(m0, "undefined")
            ELSE
            LET ch == char_at(expanded_string, ch_pos)
                idx == Alphabet_index_of(ch)
                new_edge == [start_position |-> ch_pos,
                             length |-> edge.length - it.position,
                             next_node_addr |-> edge.next_node_addr]
            IN  IF ~is_slot(idx) THEN Fail(m0, "undefined")
                ELSE [m EXCEPT
                        !.nodes = [nodes1 EXCEPT
                            ![new_node_addr + 1].edges_to_childs[idx + 1] = new_edge_addr],
                        !.edges = [edges1 EXCEPT
                            ![new_edge_addr + 1] = new_edge,
                            ![it.edge_addr + 1].length = it.position,
                            ![it.edge_addr + 1].next_node_addr = new_node_addr],
                        !.ret = new_node_addr]

\* create_new_edge_to_leaf_from_node with the counter read but never written back
\* (`leaf_addr_allocator - 1` for `--leaf_addr_allocator`): every leaf gets the same reference
create_new_edge_to_leaf_counter_not_stored(m, new_ch_pos, node_addr) ==
    LET new_leaf_addr == m.leaf - 1
    IN  IF ~is_node_ref(m.nodes, node_addr) THEN Fail(m, "undefined")
        ELSE
        LET node == get_node_by(m.nodes, node_addr)
            idx == Alphabet_index_of(char_at(expanded_string, new_ch_pos))
        IN  IF ~is_slot(idx) THEN Fail(m, "undefined")
            ELSE IF child_of(node, idx) # no_connection THEN Fail(m, "assert")
            ELSE
            LET edges1 == allocate_edge(m.edges)
                edge_addr == Len(edges1) - 1
            IN  [m EXCEPT
                    !.edges = [edges1 EXCEPT ![edge_addr + 1] =
                        [start_position |-> new_ch_pos,
                         length |-> length_to_end_from(expanded_string, new_ch_pos),
                         next_node_addr |-> new_leaf_addr]],
                    !.nodes = [m.nodes EXCEPT
                        ![node_addr + 1].edges_to_childs[idx + 1] = edge_addr]]

\* create_new_edge_to_leaf_from_node with a post-decrement (`leaf_addr_allocator--`):
\* the first leaf of the process gets the reference 0, which is the root
create_new_edge_to_leaf_post_decrement(m, new_ch_pos, node_addr) ==
    LET new_leaf_addr == m.leaf
        m1 == [m EXCEPT !.leaf = m.leaf - 1]
    IN  IF ~is_node_ref(m.nodes, node_addr) THEN Fail(m1, "undefined")
        ELSE
        LET node == get_node_by(m.nodes, node_addr)
            idx == Alphabet_index_of(char_at(expanded_string, new_ch_pos))
        IN  IF ~is_slot(idx) THEN Fail(m1, "undefined")
            ELSE IF child_of(node, idx) # no_connection THEN Fail(m1, "assert")
            ELSE
            LET edges1 == allocate_edge(m.edges)
                edge_addr == Len(edges1) - 1
            IN  [m1 EXCEPT
                    !.edges = [edges1 EXCEPT ![edge_addr + 1] =
                        [start_position |-> new_ch_pos,
                         length |-> length_to_end_from(expanded_string, new_ch_pos),
                         next_node_addr |-> new_leaf_addr]],
                    !.nodes = [m.nodes EXCEPT
                        ![node_addr + 1].edges_to_childs[idx + 1] = edge_addr]]

\* create_new_edge_to_leaf_from_node: the next leaf reference from the static
\* counter, and an edge to it from node_addr that reaches the end of the string
create_new_edge_to_leaf_from_node(m, new_ch_pos, node_addr) ==
    LET new_leaf_addr == m.leaf - 1
        m1 == [m EXCEPT !.leaf = new_leaf_addr]
    IN  IF ~is_node_ref(m.nodes, node_addr) THEN Fail(m1, "undefined")
        ELSE
        LET node == get_node_by(m.nodes, node_addr)
            ch == char_at(expanded_string, new_ch_pos)
            idx == Alphabet_index_of(ch)
        IN  IF ~is_slot(idx) THEN Fail(m1, "undefined")
            ELSE IF child_of(node, idx) # no_connection THEN Fail(m1, "assert")
            ELSE
            LET edges1 == allocate_edge(m.edges)
                edge_addr == Len(edges1) - 1
            IN  [m1 EXCEPT
                    !.edges = [edges1 EXCEPT ![edge_addr + 1] =
                        [start_position |-> new_ch_pos,
                         length |-> length_to_end_from(expanded_string, new_ch_pos),
                         next_node_addr |-> new_leaf_addr]],
                    !.nodes = [m.nodes EXCEPT
                        ![node_addr + 1].edges_to_childs[idx + 1] = edge_addr]]

\* is_position_in_node_without_path: [status, value]
is_position_in_node_without_path(m, new_ch_pos) ==
    IF ~is_node_ref(m.nodes, m.it.node_addr) THEN [status |-> "undefined", value |-> FALSE]
    ELSE
    LET node == get_node_by(m.nodes, m.it.node_addr)
        ch == char_at(expanded_string, new_ch_pos)
        idx == Alphabet_index_of(ch)
    IN  IF m.it.position # 0 THEN [status |-> "ok", value |-> FALSE]
        ELSE IF ~is_slot(idx) THEN [status |-> "undefined", value |-> FALSE]
        ELSE [status |-> "ok", value |-> child_of(node, idx) = no_connection]

\* is_position_in_edge_without_path that compares the edge's next character with
\* the character before new_ch_pos (`new_ch_pos - 1` for `new_ch_pos` in line 392)
is_position_in_edge_without_path_previous_char(m, new_ch_pos) ==
    IF m.it.position = 0 THEN [status |-> "ok", value |-> FALSE]
    ELSE IF ~(new_ch_pos > 0) THEN [status |-> "assert", value |-> FALSE]
    ELSE IF ~is_edge_ref(m.edges, m.it.edge_addr) THEN [status |-> "undefined", value |-> FALSE]
    ELSE
    LET edge == get_edge_by(m.edges, m.it.edge_addr)
        at == edge.start_position + m.it.position
    IN  IF edge.start_position < 0 THEN [status |-> "assert", value |-> FALSE]
        ELSE IF ~(m.it.position < edge.length) THEN [status |-> "assert", value |-> FALSE]
        ELSE IF ~is_char_pos(expanded_string, at - 1)
             THEN [status |-> "undefined", value |-> FALSE]
        ELSE IF char_at(expanded_string, new_ch_pos - 1) # char_at(expanded_string, at - 1)
             THEN [status |-> "assert", value |-> FALSE]
        ELSE IF ~is_char_pos(expanded_string, at) THEN [status |-> "undefined", value |-> FALSE]
        ELSE [status |-> "ok",
              value |-> char_at(expanded_string, at) # char_at(expanded_string, new_ch_pos - 1)]

\* is_position_in_edge_without_path: [status, value]
is_position_in_edge_without_path(m, new_ch_pos) ==
    IF m.it.position = 0 THEN [status |-> "ok", value |-> FALSE]
    ELSE IF ~(new_ch_pos > 0) THEN [status |-> "assert", value |-> FALSE]
    ELSE IF ~is_edge_ref(m.edges, m.it.edge_addr) THEN [status |-> "undefined", value |-> FALSE]
    ELSE
    LET edge == get_edge_by(m.edges, m.it.edge_addr)
        at == edge.start_position + m.it.position
    IN  IF edge.start_position < 0 THEN [status |-> "assert", value |-> FALSE]
        ELSE IF ~(m.it.position < edge.length) THEN [status |-> "assert", value |-> FALSE]
        ELSE IF ~is_char_pos(expanded_string, at - 1)
             THEN [status |-> "undefined", value |-> FALSE]
        ELSE IF char_at(expanded_string, new_ch_pos - 1) # char_at(expanded_string, at - 1)
             THEN [status |-> "assert", value |-> FALSE]
        ELSE IF ~is_char_pos(expanded_string, at) THEN [status |-> "undefined", value |-> FALSE]
        ELSE [status |-> "ok",
              value |-> char_at(expanded_string, at) # char_at(expanded_string, new_ch_pos)]

\* the skipping loop that looks every next edge up by the source edge's first
\* character (line 350 without `+ processed_length`)
RECURSIVE skip_edges_by_first_char(_, _, _, _)
skip_edges_by_first_char(m, source_edge, it, processed_length) ==
    IF ~is_edge_ref(m.edges, it.edge_addr) THEN Fail([m EXCEPT !.it = it], "undefined")
    ELSE
    LET edge == get_edge_by(m.edges, it.edge_addr)
        position == it.position - edge.length
        processed == processed_length + edge.length
        from == source_edge.start_position
    IN  IF ~(it.position >= edge.length) THEN [m EXCEPT !.it = it]
        ELSE IF ~(processed <= source_edge.length)
             THEN Fail([m EXCEPT !.it = [it EXCEPT !.node_addr = edge.next_node_addr,
                                                    !.position = position]], "assert")
        ELSE IF position = 0
             THEN [m EXCEPT !.it = [node_addr |-> edge.next_node_addr,
                                    edge_addr |-> no_connection, position |-> 0]]
        ELSE IF ~is_node_ref(m.nodes, edge.next_node_addr)
                \/ ~is_char_pos(expanded_string, from)
                \/ ~is_slot(Alphabet_index_of(char_at(expanded_string, from)))
             THEN Fail(m, "undefined")
        ELSE
        LET node == get_node_by(m.nodes, edge.next_node_addr)
            next == child_of(node, Alphabet_index_of(char_at(expanded_string, from)))
            it1 == [node_addr |-> edge.next_node_addr, edge_addr |-> next,
                    position |-> position]
        IN  IF next = -1 THEN Fail([m EXCEPT !.it = it1], "assert")
            ELSE skip_edges_by_first_char(m, source_edge, it1, processed)

\* go_using_suffix_connection, lines 325-354: skip whole edges of the target
\* subtree while the position is not inside the current edge
RECURSIVE skip_edges(_, _, _, _)
skip_edges(m, source_edge, it, processed_length) ==
    IF ~is_edge_ref(m.edges, it.edge_addr) THEN Fail([m EXCEPT !.it = it], "undefined")
    ELSE
    LET edge == get_edge_by(m.edges, it.edge_addr)
        position == it.position - edge.length
        processed == processed_length + edge.length
        from == source_edge.start_position + processed
    IN  IF ~(it.position >= edge.length) THEN [m EXCEPT !.it = it]
        ELSE IF ~(processed <= source_edge.length)
             THEN Fail([m EXCEPT !.it = [it EXCEPT !.node_addr = edge.next_node_addr,
                                                    !.position = position]], "assert")
        ELSE IF position = 0
             THEN [m EXCEPT !.it = [node_addr |-> edge.next_node_addr,
                                    edge_addr |-> no_connection, position |-> 0]]
        ELSE IF ~is_node_ref(m.nodes, edge.next_node_addr)
                \/ ~is_char_pos(expanded_string, from)
                \/ ~is_slot(Alphabet_index_of(char_at(expanded_string, from)))
             THEN Fail(m, "undefined")
        ELSE
        LET node == get_node_by(m.nodes, edge.next_node_addr)
            next == child_of(node, Alphabet_index_of(char_at(expanded_string, from)))
            it1 == [node_addr |-> edge.next_node_addr, edge_addr |-> next,
                    position |-> position]
        IN  IF next = -1 THEN Fail([m EXCEPT !.it = it1], "assert")
            ELSE skip_edges(m, source_edge, it1, processed)

\* go_using_suffix_connection. The source edge is read through iterator.edge_addr
\* whatever the position: with edge_addr = no_connection this is edge_allocator[-1],
\* outside the vector, and `garbage` is the Edge found there. The suffix connection
\* is stored in the iterator as it is read (line 309) and is used as an index only
\* when the position is not 0.
go_using_suffix_connection(m, garbage) ==
    LET it == m.it
        in_range == is_edge_ref(m.edges, it.edge_addr)
        source_edge == IF in_range THEN get_edge_by(m.edges, it.edge_addr) ELSE garbage
        m1 == IF in_range THEN m ELSE [m EXCEPT !.bad = @ \cup {it.edge_addr}]
    IN  IF ~(source_edge.start_position >= 0) THEN Fail(m1, "assert")
        ELSE IF ~is_node_ref(m.nodes, it.node_addr) THEN Fail(m1, "undefined")
        ELSE
        LET link == get_node_by(m.nodes, it.node_addr).suffix_connection
            m2 == [m1 EXCEPT !.it.node_addr = link]
        IN  IF it.position = 0
            THEN [m1 EXCEPT !.it = [node_addr |-> link, edge_addr |-> no_connection,
                                    position |-> 0]]
            ELSE IF ~is_node_ref(m.nodes, link) THEN Fail(m2, "undefined")
            ELSE IF ~is_char_pos(expanded_string, source_edge.start_position)
                    \/ ~is_slot(Alphabet_index_of(
                            char_at(expanded_string, source_edge.start_position)))
                 THEN Fail(m2, "undefined")
            ELSE
            LET node == get_node_by(m.nodes, link)
                next == child_of(node, Alphabet_index_of(
                            char_at(expanded_string, source_edge.start_position)))
                it1 == [node_addr |-> link, edge_addr |-> next, position |-> it.position]
            IN  IF next = -1 THEN Fail([m1 EXCEPT !.it = it1], "assert")
                ELSE skip_edges(m1, source_edge, it1, 0)

\* go_over_one_letter_next without line 524: at the end of an edge the iterator
\* moves to the node below and keeps the edge it came by
go_over_one_letter_next_keeps_edge(m, ch) ==
    LET it == m.it
        idx == Alphabet_index_of(ch)
    IN  IF it.position = 0 /\ (~is_node_ref(m.nodes, it.node_addr) \/ ~is_slot(idx))
        THEN Fail(m, "undefined")
        ELSE
        LET edge_addr == IF it.position = 0
                         THEN child_of(get_node_by(m.nodes, it.node_addr), idx)
                         ELSE it.edge_addr
            it1 == [it EXCEPT !.edge_addr = edge_addr]
        IN  IF it.position = 0 /\ edge_addr = no_connection
            THEN Fail([m EXCEPT !.it = it1], "assert")
            ELSE IF ~is_edge_ref(m.edges, edge_addr) THEN Fail([m EXCEPT !.it = it1], "undefined")
            ELSE
            LET edge == get_edge_by(m.edges, edge_addr)
                at == edge.start_position + it.position
            IN  IF ~is_dummy(m.nodes, root_addr, it.node_addr)
                   /\ ~is_char_pos(expanded_string, at)
                THEN Fail([m EXCEPT !.it = it1], "undefined")
                ELSE IF ~is_dummy(m.nodes, root_addr, it.node_addr)
                        /\ char_at(expanded_string, at) # ch
                THEN Fail([m EXCEPT !.it = it1], "assert")
                ELSE IF it.position + 1 = edge.length
                     THEN [m EXCEPT !.it = [node_addr |-> edge.next_node_addr,
                                            edge_addr |-> edge_addr, position |-> 0]]
                     ELSE [m EXCEPT !.it = [it1 EXCEPT !.position = @ + 1]]

\* go_over_one_letter_next (third_stage)
go_over_one_letter_next(m, ch) ==
    LET it == m.it
        idx == Alphabet_index_of(ch)
    IN  IF it.position = 0 /\ (~is_node_ref(m.nodes, it.node_addr) \/ ~is_slot(idx))
        THEN Fail(m, "undefined")
        ELSE
        LET edge_addr == IF it.position = 0
                         THEN child_of(get_node_by(m.nodes, it.node_addr), idx)
                         ELSE it.edge_addr
            it1 == [it EXCEPT !.edge_addr = edge_addr]
        IN  IF it.position = 0 /\ edge_addr = no_connection
            THEN Fail([m EXCEPT !.it = it1], "assert")
            ELSE IF ~is_edge_ref(m.edges, edge_addr) THEN Fail([m EXCEPT !.it = it1], "undefined")
            ELSE
            LET edge == get_edge_by(m.edges, edge_addr)
                at == edge.start_position + it.position
            IN  IF is_dummy(m.nodes, root_addr, it.node_addr)
                THEN IF it.position + 1 = edge.length
                     THEN [m EXCEPT !.it = [node_addr |-> edge.next_node_addr,
                                            edge_addr |-> -1, position |-> 0]]
                     ELSE [m EXCEPT !.it = [it1 EXCEPT !.position = @ + 1]]
                ELSE IF ~is_char_pos(expanded_string, at)
                THEN Fail([m EXCEPT !.it = it1], "undefined")
                ELSE IF char_at(expanded_string, at) # ch
                THEN Fail([m EXCEPT !.it = it1], "assert")
                ELSE IF it.position + 1 = edge.length
                     THEN [m EXCEPT !.it = [node_addr |-> edge.next_node_addr,
                                            edge_addr |-> -1, position |-> 0]]
                     ELSE [m EXCEPT !.it = [it1 EXCEPT !.position = @ + 1]]

(***************************************************************************)
(* index_of: the pattern locator.  t is a tree (expanded_string, root_addr, *)
(* node_allocator, edge_allocator).  The result is the set of the call's   *)
(* possible outcomes: one outcome unless the call reads outside a          *)
(* container.  An outcome records                                          *)
(*   status: "returned", "assert_not_leaf" (line 594 failed),              *)
(*           "assert_position" (line 611 failed) or "undefined";           *)
(*   value: the value returned;  reads: the number of node and edge        *)
(*   records looked up;  out_of_range: whether a container was indexed     *)
(*   outside its range;  on_leaf: whether the locator moved onto a leaf;   *)
(*   remaining: the characters of the pattern not consumed at the end;     *)
(*   at_node: whether the pattern ended exactly at an inner node.          *)
(***************************************************************************)
\* what edges_to_childs[-1] may hold: no connection, or the address of an edge
OutOfRangeRefs == {no_connection, 0}

Outcome(status, value, acc, on_leaf, remaining) ==
    [status |-> status, value |-> value, out_of_range |-> acc.out_of_range,
     reads |-> acc.reads, on_leaf |-> on_leaf, remaining |-> remaining,
     at_node |-> FALSE]

\* first_occurrence without the fallback of lines 602-606: at an inner node the last
\* edge is used but its length is not taken as the position on it
first_occurrence_without_edge_length(t, pattern, it, acc) ==
    LET at_node == it.edge_addr = no_connection
        edge_addr == IF at_node THEN acc.last_edge_addr ELSE it.edge_addr
        acc1 == [acc EXCEPT !.reads = @ + 1]
    IN  IF ~is_edge_ref(t.edge_allocator, edge_addr)
        THEN Outcome("undefined", 0, [acc1 EXCEPT !.out_of_range = TRUE], FALSE, 0)
        ELSE
        LET edge == get_edge_by(t.edge_allocator, edge_addr)
            position == edge.start_position + it.position - Len(pattern)
        IN  IF ~(position >= 0) THEN Outcome("assert_position", position, acc1, FALSE, 0)
            ELSE [Outcome("returned", position, acc1, FALSE, 0) EXCEPT !.at_node = at_node]

\* index_of, lines 598-612: the position from the last edge entered
first_occurrence(t, pattern, it, acc) ==
    LET at_node == it.edge_addr = no_connection
        edge_addr == IF at_node THEN acc.last_edge_addr ELSE it.edge_addr
        acc1 == [acc EXCEPT !.reads = @ + (IF at_node THEN 2 ELSE 1)]
    IN  IF ~is_edge_ref(t.edge_allocator, edge_addr)
        THEN Outcome("undefined", 0, [acc1 EXCEPT !.out_of_range = TRUE], FALSE, 0)
        ELSE
        LET edge == get_edge_by(t.edge_allocator, edge_addr)
            edge_position == IF at_node THEN edge.length ELSE it.position
            position == edge.start_position + edge_position - Len(pattern)
        IN  IF ~(position >= 0) THEN Outcome("assert_position", position, acc1, FALSE, 0)
            ELSE [Outcome("returned", position, acc1, FALSE, 0) EXCEPT !.at_node = at_node]

\* index_of, lines 558-596: the loop over the pattern from its i-th character
RECURSIVE locate(_, _, _, _, _)
locate(t, pattern, i, it, acc) ==
    IF i > Len(pattern) THEN {first_occurrence(t, pattern, it, acc)}
    ELSE
    LET ch == pattern[i]
        left == Len(pattern) - i
        node == get_node_by(t.node_allocator, it.node_addr)
        lookup == it.edge_addr = no_connection
        idx == Alphabet_index_of(ch)
        \* line 567: the child slot of the character, or what lies in front of the
        \* array; an index far behind the array is outside the process's memory
        far == lookup /\ ~is_slot(idx) /\ ~(idx < 0)
        found == IF ~lookup THEN {it.edge_addr}
                 ELSE IF is_slot(idx) THEN {child_of(node, idx)}
                 ELSE IF idx < 0 THEN OutOfRangeRefs
                 ELSE {}
        acc1 == [acc EXCEPT
                   !.reads = @ + 1,
                   !.out_of_range = @ \/ (lookup /\ (ch \notin 0..(max_alphabet_size - 1)
                                                      \/ ~is_slot(idx)))]
    IN  (IF far THEN {Outcome("undefined", 0, acc1, FALSE, left)} ELSE {}) \cup
        UNION {
          IF lookup /\ e = no_connection THEN {Outcome("returned", -1, acc1, FALSE, left)}
          ELSE IF ~is_edge_ref(t.edge_allocator, e)
          THEN {Outcome("undefined", 0, [acc1 EXCEPT !.out_of_range = TRUE], FALSE, left)}
          ELSE
          LET edge == get_edge_by(t.edge_allocator, e)
              at == edge.start_position + it.position
              in_string == is_char_pos(t.expanded_string, at)
              \* line 576: the character on the edge, or what lies outside the string
              seen == IF in_string THEN {char_at(t.expanded_string, at)} ELSE Bytes
              acc2 == [acc1 EXCEPT !.reads = @ + 1,
                                   !.out_of_range = @ \/ ~in_string]
          IN  UNION {
                IF c # ch THEN {Outcome("returned", -1, acc2, FALSE, left)}
                ELSE IF edge.length # it.position + 1
                THEN locate(t, pattern, i + 1,
                            [node_addr |-> it.node_addr, edge_addr |-> e,
                             position |-> it.position + 1], acc2)
                ELSE IF is_leaf(edge.next_node_addr)
                THEN {Outcome("assert_not_leaf", 0, acc2, TRUE, left)}
                ELSE locate(t, pattern, i + 1,
                            [node_addr |-> edge.next_node_addr, edge_addr |-> no_connection,
                             position |-> 0],
                            [acc2 EXCEPT !.last_edge_addr = e])
                : c \in seen}
          : e \in found}

\* index_of with the test for the empty pattern dropped: the empty pattern goes
\* through the dummy lookup and the position computation like any other
index_of_without_empty_test(t, pattern) ==
    LET dummy_addr == get_dummy(t.node_allocator, t.root_addr)
        last_edge_addr == child_of(get_node_by(t.node_allocator, dummy_addr), 0)
    IN  locate(t, pattern, 1,
               [node_addr |-> t.root_addr, edge_addr |-> no_connection, position |-> 0],
               [last_edge_addr |-> last_edge_addr, out_of_range |-> FALSE, reads |-> 2])

\* index_of: the empty pattern is answered before anything is looked up; otherwise
\* the dummy (through the root) and the dummy's first edge are read, then the loop
index_of(t, pattern) ==
    IF Len(pattern) = 0
    THEN {Outcome("returned", 0, [out_of_range |-> FALSE, reads |-> 0], FALSE, 0)}
    ELSE
    LET dummy_addr == get_dummy(t.node_allocator, t.root_addr)
        last_edge_addr == child_of(get_node_by(t.node_allocator, dummy_addr), 0)
    IN  locate(t, pattern, 1,
               [node_addr |-> t.root_addr, edge_addr |-> no_connection, position |-> 0],
               [last_edge_addr |-> last_edge_addr, out_of_range |-> FALSE, reads |-> 2])

\* contains: index_of(pattern) != -1
contains(outcome) == outcome.value # -1

(***************************************************************************)
(* The program's state and its steps                                       *)
(***************************************************************************)
NoTree == [kept |-> FALSE, expanded_string |-> <<>>, root_addr |-> 0,
           node_allocator |-> <<>>, edge_allocator |-> <<>>]
ThisTree == [kept |-> TRUE, expanded_string |-> expanded_string, root_addr |-> root_addr,
             node_allocator |-> node_allocator, edge_allocator |-> edge_allocator]
NoQuery == [pattern |-> <<>>, status |-> "none", value |-> 0, out_of_range |-> FALSE,
            reads |-> 0, on_leaf |-> FALSE, remaining |-> 0, at_node |-> FALSE]

\* InnerPosition's default member initialisers
InnerPosition == [node_addr |-> -1, edge_addr |-> no_connection, position |-> 0]

Init ==
    /\ char_to_index_oob \in OutOfRangeIndices
    /\ leaf_addr_allocator = 0
    /\ builds = 0
    /\ expanded_string = <<>>
    /\ root_addr = indeterminate
    /\ node_allocator = <<>>
    /\ edge_allocator = <<>>
    /\ iterator = InnerPosition
    /\ pos = 0
    /\ last_node_addr = indeterminate
    /\ pc = "idle"
    /\ bad_edge_refs = {}
    /\ first = NoTree
    /\ query = NoQuery

\* the builder's state as the record the construction steps work on
Builder == [nodes |-> node_allocator, edges |-> edge_allocator, it |-> iterator,
            leaf |-> leaf_addr_allocator, ret |-> last_node_addr,
            bad |-> bad_edge_refs, status |-> "ok"]

\* the builder's state after a step that ended as m; a failed assert aborts the process
Commit(m, next_pc) ==
    /\ node_allocator' = m.nodes
    /\ edge_allocator' = m.edges
    /\ iterator' = m.it
    /\ leaf_addr_allocator' = m.leaf
    /\ bad_edge_refs' = m.bad
    /\ pc' = IF m.status = "ok" THEN next_pc
             ELSE IF m.status = "assert" THEN "aborted" ELSE "undefined"

\* SuffixTree::SuffixTree up to the call of construct_tree, and construct_tree's
\* first line: the alphabet check, root, dummy, the iterator at the root
Construct(source) ==
    LET expanded == source \o <<terminal_symbol>>
        with_root == allocate_node(<<>>)
        root == Len(with_root) - 1
        d == create_dummy_node(with_root, <<>>, root)
    IN  /\ pc \in {"idle", "done"}
        /\ builds < MaxBuilds
        /\ builds' = builds + 1
        /\ expanded_string' = expanded
        /\ bad_edge_refs' = {}
        /\ pos' = 0
        /\ last_node_addr' = indeterminate
        /\ UNCHANGED <<char_to_index_oob, leaf_addr_allocator>>
        /\ IF ~is_alphabet_of(expanded)
           THEN /\ pc' = "aborted"
                /\ root_addr' = indeterminate
                /\ node_allocator' = <<>>
                /\ edge_allocator' = <<>>
                /\ iterator' = InnerPosition
           ELSE /\ pc' = "second_stage"
                /\ root_addr' = root
                /\ node_allocator' = [d.nodes EXCEPT ![root + 1].suffix_connection = d.dummy_addr]
                /\ edge_allocator' = d.edges
                /\ iterator' = [node_addr |-> root, edge_addr |-> no_connection, position |-> 0]

\* a tree is constructed from any source; an earlier tree is destroyed
Build ==
    /\ \E source \in Sources : Construct(source)
    /\ first' = NoTree
    /\ query' = NoQuery

\* a second tree is constructed from the source of the first, which the caller keeps
Rebuild ==
    /\ pc = "done"
    /\ Construct(SubSeq(expanded_string, 1, Len(expanded_string) - 1))
    /\ first' = ThisTree
    /\ query' = NoQuery

\* add_node_in, create_new_edge_to_leaf_from_node, go_using_suffix_connection: the
\* body of second_stage's `if` and of its first `while`
split_and_go(m, new_ch_pos, garbage) ==
    LET a == add_node_in(m)
        b == IF a.status = "ok"
             THEN create_new_edge_to_leaf_from_node(a, new_ch_pos, a.ret) ELSE a
    IN  IF b.status = "ok" THEN go_using_suffix_connection(b, garbage) ELSE b

\* second_stage, lines 465-471: last_node_addr starts as the dummy (line 465, before
\* anything can fail); a first split stores the new node in it
SecondStageEnter ==
    /\ pc = "second_stage"
    /\ LET entered == [Builder EXCEPT !.ret = get_dummy(node_allocator, root_addr)]
           c == is_position_in_edge_without_path(entered, pos)
       IN  \E garbage \in OutOfRangeEdges :
             LET m == IF c.status # "ok" THEN Fail(entered, c.status)
                      ELSE IF c.value THEN split_and_go(entered, pos, garbage)
                      ELSE entered
             IN  /\ Commit(m, "split_loop")
                 /\ last_node_addr' = m.ret
    /\ UNCHANGED <<char_to_index_oob, builds, expanded_string, root_addr, pos, first, query>>

\* second_stage's splitting loop without line 477: the node created before is not
\* connected to the new node
SecondStageSplit_without_connection ==
    /\ pc = "split_loop"
    /\ LET c == is_position_in_edge_without_path(Builder, pos)
       IN  /\ c.status # "ok" \/ c.value
           /\ \E garbage \in OutOfRangeEdges :
                LET a == IF c.status # "ok" THEN Fail(Builder, c.status)
                         ELSE add_node_in(Builder)
                    b == IF a.status = "ok"
                         THEN create_new_edge_to_leaf_from_node(a, pos, a.ret)
                         ELSE a
                    m == IF b.status = "ok" THEN go_using_suffix_connection(b, garbage) ELSE b
                IN  /\ Commit(m, "split_loop")
                    /\ last_node_addr' = IF a.status = "ok" THEN a.ret
                                         ELSE last_node_addr
    /\ UNCHANGED <<char_to_index_oob, builds, expanded_string, root_addr, pos, first, query>>

\* second_stage, lines 473-481: one iteration of the splitting loop
SecondStageSplit ==
    /\ pc = "split_loop"
    /\ LET c == is_position_in_edge_without_path(Builder, pos)
       IN  /\ c.status # "ok" \/ c.value
           /\ \E garbage \in OutOfRangeEdges :
                LET a == IF c.status # "ok" THEN Fail(Builder, c.status)
                         ELSE add_node_in(Builder)
                    linked == IF a.status # "ok" THEN a
                              ELSE IF ~is_node_ref(a.nodes, last_node_addr)
                              THEN Fail(a, "undefined")
                              ELSE [a EXCEPT
                                      !.nodes[last_node_addr + 1].suffix_connection = a.ret]
                    b == IF linked.status = "ok"
                         THEN create_new_edge_to_leaf_from_node(linked, pos, linked.ret)
                         ELSE linked
                    m == IF b.status = "ok" THEN go_using_suffix_connection(b, garbage) ELSE b
                IN  /\ Commit(m, "split_loop")
                    /\ last_node_addr' = IF linked.status = "ok" THEN linked.ret
                                         ELSE last_node_addr
    /\ UNCHANGED <<char_to_index_oob, builds, expanded_string, root_addr, pos, first, query>>

\* second_stage with line 484 connecting the last created node to the root
\* (`root_addr` for `iterator.node_addr`)
SecondStageConnect_to_root ==
    /\ pc = "split_loop"
    /\ LET c == is_position_in_edge_without_path(Builder, pos)
       IN  /\ c.status = "ok" /\ ~c.value
           /\ Commit(IF ~is_node_ref(node_allocator, last_node_addr)
                     THEN Fail(Builder, "undefined")
                     ELSE [Builder EXCEPT
                             !.nodes[last_node_addr + 1].suffix_connection = root_addr],
                     "leaf_loop")
    /\ UNCHANGED <<char_to_index_oob, builds, expanded_string, root_addr, pos,
                   last_node_addr, first, query>>

\* second_stage, line 484: the splitting loop has ended; the last created node is
\* connected to the node the iterator stands on
SecondStageConnect ==
    /\ pc = "split_loop"
    /\ LET c == is_position_in_edge_without_path(Builder, pos)
       IN  /\ c.status = "ok" /\ ~c.value
           /\ Commit(IF ~is_node_ref(node_allocator, last_node_addr)
                     THEN Fail(Builder, "undefined")
                     ELSE [Builder EXCEPT
                             !.nodes[last_node_addr + 1].suffix_connection = iterator.node_addr],
                     "leaf_loop")
    /\ UNCHANGED <<char_to_index_oob, builds, expanded_string, root_addr, pos,
                   last_node_addr, first, query>>

\* second_stage, lines 486-491: one iteration of the loop that hangs a leaf on a node
SecondStageLeaf ==
    /\ pc = "leaf_loop"
    /\ LET c == is_position_in_node_without_path(Builder, pos)
       IN  /\ c.status # "ok" \/ c.value
           /\ \E garbage \in OutOfRangeEdges :
                LET a == IF c.status # "ok" THEN Fail(Builder, c.status)
                         ELSE create_new_edge_to_leaf_from_node(Builder, pos, iterator.node_addr)
                    m == IF a.status = "ok" THEN go_using_suffix_connection(a, garbage) ELSE a
                IN  Commit(m, "leaf_loop")
    /\ UNCHANGED <<char_to_index_oob, builds, expanded_string, root_addr, pos,
                   last_node_addr, first, query>>

\* third_stage and construct_tree's loop step: one letter down, then the next
\* position or the end of the construction; a failed assert ends the process inside
\* third_stage
ThirdStage ==
    /\ pc = "leaf_loop"
    /\ LET c == is_position_in_node_without_path(Builder, pos)
           m == go_over_one_letter_next(Builder, char_at(expanded_string, pos))
       IN  /\ c.status = "ok" /\ ~c.value
           /\ Commit(m, IF pos + 1 < Len(expanded_string) THEN "second_stage" ELSE "done")
           \* ++pos of line 535 runs when third_stage has returned
           /\ pos' = IF m.status = "ok" THEN pos + 1 ELSE pos
    /\ UNCHANGED <<char_to_index_oob, builds, expanded_string, root_addr,
                   last_node_addr, first, query>>

\* the caller asks index_of(pattern) of the constructed tree; a failed assert
\* aborts the process. index_of is const: one call per tree is followed
Query ==
    /\ pc = "done"
    /\ query.status = "none"
    /\ \E pattern \in Patterns :
         \E outcome \in index_of(ThisTree, pattern) :
           /\ query' = [pattern |-> pattern, status |-> outcome.status,
                        value |-> outcome.value, out_of_range |-> outcome.out_of_range,
                        reads |-> outcome.reads, on_leaf |-> outcome.on_leaf,
                        remaining |-> outcome.remaining, at_node |-> outcome.at_node]
           /\ pc' = IF outcome.status = "returned" THEN "done"
                    ELSE IF outcome.status = "undefined" THEN "undefined" ELSE "aborted"
    /\ UNCHANGED <<char_to_index_oob, leaf_addr_allocator, builds, expanded_string,
                   root_addr, node_allocator, edge_allocator, iterator, pos,
                   last_node_addr, bad_edge_refs, first>>

Next ==
    \/ Build
    \/ Rebuild
    \/ SecondStageEnter
    \/ SecondStageSplit
    \/ SecondStageConnect
    \/ SecondStageLeaf
    \/ ThirdStage

Spec == Init /\ [][Next]_vars

\* one tree is constructed and then queried
NextQuery ==
    \/ builds = 0 /\ Build
    \/ SecondStageEnter
    \/ SecondStageSplit
    \/ SecondStageConnect
    \/ SecondStageLeaf
    \/ ThirdStage
    \/ Query

SpecQuery == Init /\ [][NextQuery]_vars

\* the process constructs one tree, from a longer source
BuildDeep ==
    /\ builds = 0
    /\ \E source \in DeepSources : Construct(source)
    /\ first' = NoTree
    /\ query' = NoQuery

NextDeep ==
    \/ BuildDeep
    \/ SecondStageEnter
    \/ SecondStageSplit
    \/ SecondStageConnect
    \/ SecondStageLeaf
    \/ ThirdStage

SpecDeep == Init /\ [][NextDeep]_vars

(***************************************************************************)
(* What the properties speak of                                            *)
(***************************************************************************)
\* the source the current tree was constructed from, and the expanded length
Source == SubSeq(expanded_string, 1, Len(expanded_string) - 1)
N == Len(expanded_string)

\* every byte of the source is a letter of the alphabet
SourceInAlphabet == \A i \in 1..Len(Source) : is_exist(Source[i])
\* ... and none is the terminal byte
ValidSource == SourceInAlphabet /\ \A i \in 1..Len(Source) : Source[i] # terminal_symbol

OverAlphabet(s) == \A i \in 1..Len(s) : is_exist(s[i])

\* s occurs in src at the (0-based) position p
occurs_at(s, src, p) ==
    /\ p >= 0
    /\ p + Len(s) <= Len(src)
    /\ \A j \in 1..Len(s) : src[p + j] = s[j]
is_substring(s, src) == \E p \in 0..Len(src) : occurs_at(s, src, p)

\* an index_of call has been made on the current tree
Answered == query.status # "none"

\* the leaves below node_addr, each with the string its path from the root spells
RECURSIVE leaf_paths(_, _, _)
leaf_paths(t, node_addr, prefix) ==
    UNION {
      LET e == child_of(get_node_by(t.node_allocator, node_addr), idx)
      IN  IF e = no_connection THEN {}
          ELSE LET edge == get_edge_by(t.edge_allocator, e)
                   label == prefix \o SubSeq(t.expanded_string, edge.start_position + 1,
                                             edge.start_position + edge.length)
               IN  IF is_leaf(edge.next_node_addr)
                   THEN {[leaf |-> edge.next_node_addr, spells |-> label]}
                   ELSE leaf_paths(t, edge.next_node_addr, label)
      : idx \in 0..(Alphabet_size - 1)}

\* the suffix of the expanded string that starts at the (0-based) position i
suffix_from(str, i) == SubSeq(str, i + 1, Len(str))

\* the edges of the arena that lead to a leaf
leaf_edges(edges) == {e \in 0..(Len(edges) - 1) : is_leaf(get_edge_by(edges, e).next_node_addr)}

\* the construction of the current tree is under way or complete
Constructing == pc \in {"second_stage", "split_loop", "leaf_loop", "done"}

\* the edges that leave the node
edges_of(nodes, node_addr) ==
    {child_of(get_node_by(nodes, node_addr), idx) : idx \in 0..(Alphabet_size - 1)}
        \ {no_connection}

\* the active point is well formed
ActivePointWellFormed ==
    /\ is_node_ref(node_allocator, iterator.node_addr)
    /\ (iterator.edge_addr = no_connection) <=> (iterator.position = 0)
    /\ iterator.edge_addr # no_connection =>
         /\ is_edge_ref(edge_allocator, iterator.edge_addr)
         /\ iterator.edge_addr \in edges_of(node_allocator, iterator.node_addr)
         /\ 0 < iterator.position
         /\ iterator.position < get_edge_by(edge_allocator, iterator.edge_addr).length

\* second_stage has returned: its last loop has found its condition false
Stage2Returned ==
    /\ pc = "leaf_loop"
    /\ is_position_in_node_without_path(Builder, pos) = [status |-> "ok", value |-> FALSE]

\* the label of an edge of the tree t
label_of(t, edge) ==
    SubSeq(t.expanded_string, edge.start_position + 1, edge.start_position + edge.length)

\* the inner nodes at and below node_addr, each with the string its path from
\* the root spells
RECURSIVE inner_paths(_, _, _)
inner_paths(t, node_addr, prefix) ==
    {[node |-> node_addr, spells |-> prefix]} \cup
    UNION {
      LET edge == get_edge_by(t.edge_allocator, e)
      IN  IF is_leaf(edge.next_node_addr) THEN {}
          ELSE inner_paths(t, edge.next_node_addr, prefix \o label_of(t, edge))
      : e \in edges_of(t.node_allocator, node_addr)}

\* the strings the paths from the root to the inner node spell (one string in a
\* tree; none for the dummy, which is above the root)
paths_to(t, node_addr) ==
    {p.spells : p \in {q \in inner_paths(t, t.root_addr, <<>>) : q.node = node_addr}}

\* the strings the paths from the root to the active point spell
ActiveStrings ==
    {w \o (IF iterator.position = 0 THEN <<>>
           ELSE LET edge == get_edge_by(edge_allocator, iterator.edge_addr)
                IN  SubSeq(expanded_string, edge.start_position + 1,
                           edge.start_position + iterator.position))
       : w \in paths_to(ThisTree, iterator.node_addr)}

\* the inner nodes with an edge to the node
parents_of(nodes, edges, node_addr) ==
    {p \in 0..(Len(nodes) - 1) :
        \E e \in edges_of(nodes, p) : get_edge_by(edges, e).next_node_addr = node_addr}

\* the inner nodes of the tree other than the root and the dummy
split_nodes(nodes, root) ==
    {v \in 0..(Len(nodes) - 1) : v # root /\ v # get_dummy(nodes, root)}

\* the suffix connection of v leads to the inner node whose string is v's string
\* without its first character
is_suffix_connected(t, v) ==
    LET link == get_node_by(t.node_allocator, v).suffix_connection
    IN  /\ is_node_ref(t.node_allocator, link)
        /\ \E w \in paths_to(t, v) :
              /\ paths_to(t, v) = {w}
              /\ w # <<>>
              /\ paths_to(t, link) = {Tail(w)}

\* the suffix connection of the node has been written and indexes a node
has_connection(nodes, v) ==
    LET link == get_node_by(nodes, v).suffix_connection
    IN  link # indeterminate /\ is_node_ref(nodes, link)

\* the dummy's suffix connection
dummy_connection ==
    get_node_by(node_allocator, get_dummy(node_allocator, root_addr)).suffix_connection

\* second_stage is about to call go_using_suffix_connection: the condition of its
\* `if` or of one of its loops is true
TraversalDue ==
    \/ /\ pc \in {"second_stage", "split_loop"}
       /\ is_position_in_edge_without_path(Builder, pos) = [status |-> "ok", value |-> TRUE]
    \/ /\ pc = "leaf_loop"
       /\ is_position_in_node_without_path(Builder, pos) = [status |-> "ok", value |-> TRUE]

\* the slot i of the node is empty or holds an allocated edge whose label starts
\* with the symbol of index i
slot_in_order(t, node_addr, i) ==
    LET e == child_of(get_node_by(t.node_allocator, node_addr), i)
    IN  \/ e = no_connection
        \/ /\ is_edge_ref(t.edge_allocator, e)
           /\ get_edge_by(t.edge_allocator, e).start_position >= 0
           /\ get_edge_by(t.edge_allocator, e).start_position < Len(t.expanded_string)
           /\ Alphabet_index_of(char_at(t.expanded_string,
                                        get_edge_by(t.edge_allocator, e).start_position)) = i

\* the iterator at the node, as line 533 places it at the root
at_node(node_addr) == [node_addr |-> node_addr, edge_addr |-> no_connection, position |-> 0]

\* the leaves below the edge, each with the string its path from the root spells;
\* prefix is the string of the edge's origin node
leaves_below(t, edge, prefix) ==
    IF is_leaf(edge.next_node_addr)
    THEN {[leaf |-> edge.next_node_addr, spells |-> prefix \o label_of(t, edge)]}
    ELSE leaf_paths(t, edge.next_node_addr, prefix \o label_of(t, edge))

\* the positions in the expanded string at which the suffixes of the leaves start
suffix_starts(t, leaves) == {Len(t.expanded_string) - Len(l.spells) : l \in leaves}

\* the smallest element of a non-empty set of integers
min_of(S) == CHOOSE x \in S : \A y \in S : x <= y

\* the edges of the arena that lead to the node or leaf
edges_into(edges, ref) ==
    {e \in 0..(Len(edges) - 1) : get_edge_by(edges, e).next_node_addr = ref}

\* the leaf references the edges of the arena lead to
leaf_refs(edges) == {get_edge_by(edges, e).next_node_addr : e \in leaf_edges(edges)}

\* the child slots (node, index) that hold the edge
slots_of(nodes, e) ==
    {s \in (0..(Len(nodes) - 1)) \X (0..(Alphabet_size - 1)) :
        child_of(get_node_by(nodes, s[1]), s[2]) = e}

(***************************************************************************)
(* Properties                                                              *)
(***************************************************************************)

\* C1: for a tree built from a valid source and every pattern over the alphabet
\* (the terminal byte included), index_of returns, and contains (index_of != -1)
\* is true iff the pattern is a substring of the original source.
C1_ContainsIffSubstring ==
    (ValidSource /\ Answered /\ OverAlphabet(query.pattern)) =>
        /\ query.status = "returned"
        /\ contains(query) <=> is_substring(query.pattern, Source)

\* C2: for a tree built from a valid source and every non-empty pattern that
\* occurs in the source, index_of returns the leftmost occurrence: the pattern
\* occurs at the returned position p >= 0 and at no smaller position, whether
\* the pattern ends inside an edge or exactly at an inner node.
C2_LeftmostOccurrence ==
    (ValidSource /\ Answered /\ query.pattern # <<>>
        /\ is_substring(query.pattern, Source)) =>
        /\ query.status = "returned"
        /\ query.value >= 0
        /\ occurs_at(query.pattern, Source, query.value)
        /\ \A p \in 0..(query.value - 1) : ~occurs_at(query.pattern, Source, p)

\* C2, its case: a pattern that ends exactly at an inner node and whose leftmost
\* occurrence is not at the start of the source
C2_Witness ==
    /\ ValidSource /\ Answered /\ query.pattern # <<>>
    /\ is_substring(query.pattern, Source)
    /\ query.status = "returned" /\ query.at_node /\ query.value > 0

\* C3: for every pattern with a byte outside the alphabet, index_of returns -1
\* and indexes no container outside its range.
C3_OutsiderReturnsMinusOne ==
    (ValidSource /\ Answered /\ ~OverAlphabet(query.pattern)) =>
        /\ query.status = "returned"
        /\ query.value = -1
        /\ ~query.out_of_range

\* C4: the completed tree of a valid source has exactly N leaves with N distinct
\* leaf references, and for every i in 0..N-1 exactly one leaf whose path from
\* the root spells the suffix expanded[i..N).
C4_OneLeafPerSuffix ==
    (ValidSource /\ pc = "done") =>
        LET paths == leaf_paths(ThisTree, root_addr, <<>>)
        IN  /\ Cardinality(leaf_edges(edge_allocator)) = N
            /\ Cardinality(paths) = N
            /\ Cardinality({l.leaf : l \in paths}) = N
            /\ \A i \in 0..(N - 1) :
                 Cardinality({l \in paths : l.spells = suffix_from(expanded_string, i)}) = 1

\* C4, its case: a completed tree of a valid source in which an edge was split
C4_Witness ==
    /\ ValidSource /\ pc = "done" /\ N >= 3
    /\ Len(node_allocator) > 2
    /\ Cardinality(leaf_edges(edge_allocator)) = N

\* C5: in every build the leaf counter starts at 0, and the leaves of the
\* completed tree have the ids 0..N-1 in creation order (the leaf of the suffix
\* that starts at i, the i-th created, has reference -(i+1)).
C5_CounterIsPerBuild ==
    /\ (pc = "second_stage" /\ pos = 0) => leaf_addr_allocator = 0
    /\ (ValidSource /\ pc = "done") =>
         \A l \in leaf_paths(ThisTree, root_addr, <<>>) :
            leaf_num_of(l.leaf) = [status |-> "ok", value |-> N - Len(l.spells)]

\* C6: index_of("") returns 0 for every tree, the tree of the empty source
\* included, and looks up no node and no edge.
C6_EmptyPattern ==
    (Answered /\ query.pattern = <<>>) =>
        /\ query.status = "returned"
        /\ query.value = 0
        /\ query.reads = 0

\* C6, its case: the empty pattern asked of the tree of the empty source
C6_Witness ==
    /\ Answered /\ query.pattern = <<>> /\ Source = <<>>
    /\ pc = "done" /\ query.value = 0

\* C7: a source with a byte outside the alphabet makes the constructor fail at
\* the alphabet check, before any node or edge is allocated.
C7_FailFast ==
    (builds > 0 /\ ~SourceInAlphabet) =>
        /\ pc = "aborted"
        /\ node_allocator = <<>>
        /\ edge_allocator = <<>>

\* C8: two trees built one after the other from the same valid source answer
\* every index_of call alike, whatever the leaf counter carried from the first
\* build into the second.
C8_RebuildAnswersAlike ==
    (first.kept /\ pc = "done" /\ ValidSource) =>
        \A pattern \in Patterns : index_of(first, pattern) = index_of(ThisTree, pattern)

\* C8, its case: the second tree is complete and its leaf references differ
\* from those of the first
C8_Witness ==
    /\ first.kept /\ pc = "done" /\ ValidSource
    /\ Len(node_allocator) > 2
    /\ first.edge_allocator # edge_allocator

\* C9: every edge reference dereferenced while a valid source is constructed
\* indexes an allocated edge; go_using_suffix_connection reads no edge record
\* when the iterator has no edge.
C9_EdgeRefsAllocated ==
    ValidSource => bad_edge_refs = {}

\* C10: for a valid source and every pattern over the alphabet (terminal byte
\* included), the locator never moves onto a leaf, so the assert of line 594
\* never fails.
C10_NeverOnLeaf ==
    (ValidSource /\ Answered /\ OverAlphabet(query.pattern)) =>
        /\ ~query.on_leaf
        /\ query.status # "assert_not_leaf"

\* C11: while a valid source is constructed, at the start and at the end of every
\* whole-character step and after every suffix-connection traversal of stage 2, the
\* active point is well formed: its node indexes an allocated inner node (never a
\* leaf reference), its edge is no_connection iff its position is 0, and otherwise
\* the edge leaves the node and 0 < position < edge.length.
C11_ActivePointWellFormed ==
    (ValidSource /\ Constructing) => ActivePointWellFormed

\* C11, its case: a traversal that followed a split has ended inside an edge
C11_Witness ==
    /\ ValidSource /\ pc = "split_loop"
    /\ last_node_addr # get_dummy(node_allocator, root_addr)
    /\ iterator.position > 0
    /\ ActivePointWellFormed

\* C12: for every position pos of a valid expanded string, when stage 2 returns
\* the character c = expanded[pos] is reachable from the active point: at position 0
\* the node has a child edge on idx(c); otherwise the current edge continues with c
\* or the node is the dummy. Stage 3 then succeeds: its edge lookup does not yield
\* no_connection and its character assertion holds.
C12_Stage3Succeeds ==
    (ValidSource /\ Stage2Returned) =>
        LET c == char_at(expanded_string, pos)
            node == get_node_by(node_allocator, iterator.node_addr)
        IN  /\ iterator.position = 0 =>
                  child_of(node, Alphabet_index_of(c)) # no_connection
            /\ iterator.position # 0 =>
                  \/ is_dummy(node_allocator, root_addr, iterator.node_addr)
                  \/ /\ is_edge_ref(edge_allocator, iterator.edge_addr)
                     /\ LET edge == get_edge_by(edge_allocator, iterator.edge_addr)
                        IN  char_at(expanded_string,
                                    edge.start_position + iterator.position) = c
            /\ go_over_one_letter_next(Builder, c).status = "ok"

\* C12, its case: stage 2 has returned with the active point inside an edge
C12_Witness ==
    /\ ValidSource /\ Stage2Returned
    /\ iterator.position > 0 /\ pos > 1
    /\ go_over_one_letter_next(Builder, char_at(expanded_string, pos)).status = "ok"

\* C13: whenever stage 2 of a valid source splits an edge and calls the
\* suffix-connection traversal from an active point inside an edge (position > 0)
\* whose path from the root spells w, w is not empty and the traversal ends at an
\* active point whose path spells w without its first character; no assert of the
\* traversal fails (every child lookup finds an edge, processed_length <=
\* source_edge.length) and no container is indexed outside its range.
C13_SkipCount ==
    [][(/\ ValidSource
        /\ pc \in {"second_stage", "split_loop"}
        /\ iterator.position > 0
        /\ Len(node_allocator') > Len(node_allocator))
       => /\ pc' = "split_loop"
          /\ \E w \in ActiveStrings :
                /\ w # <<>>
                /\ ActiveStrings = {w}
                /\ ActiveStrings' = {Tail(w)}]_vars

\* C13, its case: the traversal that followed the last split has skipped a whole
\* edge below the node it jumped to (below the root when it jumped to the dummy)
C13_Witness ==
    /\ ValidSource /\ pc = "split_loop"
    /\ last_node_addr # get_dummy(node_allocator, root_addr)
    /\ \E p \in parents_of(node_allocator, edge_allocator, last_node_addr) :
          LET link == get_node_by(node_allocator, p).suffix_connection
          IN  iterator.node_addr # (IF p = root_addr THEN root_addr ELSE link)

\* C14: in the completed tree of a valid source, for every inner node v other than
\* the root and the dummy, v.suffix_connection indexes an allocated inner node t,
\* and the string from the root to t is the string from the root to v without its
\* first character.
C14_SuffixConnections ==
    (ValidSource /\ pc = "done") =>
        \A v \in split_nodes(node_allocator, root_addr) : is_suffix_connected(ThisTree, v)

\* C14, its case: a completed tree with a suffix connection between two nodes
\* below the root
C14_Witness ==
    /\ ValidSource /\ pc = "done"
    /\ \E v \in split_nodes(node_allocator, root_addr) :
          /\ get_node_by(node_allocator, v).suffix_connection
                \in split_nodes(node_allocator, root_addr)
          /\ is_suffix_connected(ThisTree, v)

\* C15: while a valid source is constructed, (1) every node a split of the splitting
\* loop creates becomes the suffix connection of the node the previous split of the
\* same stage-2 invocation created; (2) when splitting stops, the last node created
\* gets the active point's node as its suffix connection; (3) at the start and at
\* the end of every whole-character step every inner node other than the root and
\* the dummy has a suffix connection that is set and indexes an allocated inner node.
C15_Stitching ==
    /\ [][(ValidSource /\ pc = "split_loop"
            /\ Len(node_allocator') > Len(node_allocator))
           => /\ last_node_addr' = Len(node_allocator)
              /\ get_node_by(node_allocator', last_node_addr).suffix_connection
                    = last_node_addr']_vars
    /\ [][(ValidSource /\ pc = "split_loop" /\ pc' = "leaf_loop")
           => get_node_by(node_allocator', last_node_addr).suffix_connection
                 = iterator.node_addr]_vars
    /\ []((ValidSource /\ pc \in {"second_stage", "done"}) =>
            \A v \in split_nodes(node_allocator, root_addr) :
                has_connection(node_allocator, v))

\* C15, its case: a whole-character step has ended in which two splits were made:
\* the first node is connected to the second, the second to the root
C15_Witness ==
    /\ ValidSource /\ pc = "second_stage" /\ pos > 0
    /\ \E v, t \in split_nodes(node_allocator, root_addr) :
          /\ t = v + 1
          /\ get_node_by(node_allocator, v).suffix_connection = t
          /\ get_node_by(node_allocator, t).suffix_connection = root_addr

\* C16 as stated: in every state of the construction the dummy's suffix connection
\* is the dummy itself; no construction step writes a different value into it.
C16_DummySelfConnected ==
    (ValidSource /\ Constructing) =>
        dummy_connection = get_dummy(node_allocator, root_addr)

\* C16 as amended: the dummy's suffix connection is the dummy itself when
\* initialisation ends; it is only ever rewritten by line 484 of a stage-2
\* invocation that made no split, and every such invocation stores the active
\* point's node in it when its splitting loop ends; in
\* every state it indexes an allocated inner node, and the suffix-connection
\* traversal is never called with the active point at the dummy, so the value is
\* never followed.
C16_DummyConnectionUnused ==
    /\ []((ValidSource /\ pc = "second_stage" /\ pos = 0) =>
            dummy_connection = get_dummy(node_allocator, root_addr))
    /\ []((ValidSource /\ Constructing) =>
            is_node_ref(node_allocator, dummy_connection))
    /\ []((ValidSource /\ TraversalDue) =>
            ~is_dummy(node_allocator, root_addr, iterator.node_addr))
    /\ [][(ValidSource /\ Constructing /\ dummy_connection' # dummy_connection)
           => /\ pc = "split_loop" /\ pc' = "leaf_loop"
              /\ last_node_addr = get_dummy(node_allocator, root_addr)
              /\ dummy_connection' = iterator.node_addr]_vars
    /\ [][(ValidSource /\ pc = "split_loop" /\ pc' = "leaf_loop"
            /\ last_node_addr = get_dummy(node_allocator, root_addr))
           => dummy_connection' = iterator.node_addr]_vars

\* C16, its case: an invocation without a split has stored a node below the root
\* in the dummy's suffix connection
C16_Witness ==
    /\ ValidSource /\ pc = "leaf_loop"
    /\ last_node_addr = get_dummy(node_allocator, root_addr)
    /\ dummy_connection \in split_nodes(node_allocator, root_addr)
    /\ dummy_connection = iterator.node_addr

\* C17 as stated: once an inner node v is the child of an edge that leaves the inner
\* node p, every later state of the construction has v as the child of an edge
\* that leaves p.
C17_NeverReparented ==
    [][(ValidSource /\ Constructing) =>
        \A v \in split_nodes(node_allocator, root_addr) :
          \A p \in parents_of(node_allocator, edge_allocator, v) :
             p \in parents_of(node_allocator', edge_allocator', v)]_vars

\* C17 as amended: an inner node is never destroyed and the string from the root to
\* it never changes; its parent changes only when the edge that enters it is
\* split: the node the split creates becomes its parent and is itself the child of
\* an edge that leaves the old parent, so the node stays below every node it was below.
C17_ReparentedOnlyBySplit ==
    [][(ValidSource /\ Constructing) =>
        \A v \in split_nodes(node_allocator, root_addr) :
          /\ is_node_ref(node_allocator', v)
          /\ paths_to(ThisTree', v) = paths_to(ThisTree, v)
          /\ \A p \in parents_of(node_allocator, edge_allocator, v) :
               \/ parents_of(node_allocator', edge_allocator', v) = {p}
               \/ LET u == Len(node_allocator)
                  IN  /\ Len(node_allocator') = u + 1
                      /\ iterator.node_addr = p
                      /\ parents_of(node_allocator', edge_allocator', v) = {u}
                      /\ parents_of(node_allocator', edge_allocator', u) = {p}]_vars

\* C17, its case: an inner node is the child of a node created after it: the edge
\* that entered it has been split
C17_Witness ==
    /\ ValidSource /\ Constructing
    /\ \E v \in split_nodes(node_allocator, root_addr) :
          \E u \in parents_of(node_allocator, edge_allocator, v) :
             /\ u > v
             /\ u \in split_nodes(node_allocator, root_addr)
             /\ Cardinality(paths_to(ThisTree, v)) = 1

\* C18: a split made while a valid source is constructed, of the active edge e
\* (start s, length L, child x) at the position d while the character at pos is
\* inserted, has 0 < d < L and creates exactly one node u and two edges: e becomes
\* (s, d, u); u gets on the symbol expanded[s+d] the edge (s+d, L-d, x) and on the
\* symbol expanded[pos] the leaf edge (pos, N-pos, the next leaf reference), and no
\* other child; the labels of e and of the remainder edge together are e's old
\* label; the children of every other node and every other edge are unchanged.
C18_EdgeSplit ==
    [][(/\ ValidSource
        /\ pc \in {"second_stage", "split_loop"}
        /\ Len(node_allocator') > Len(node_allocator))
       => LET e == iterator.edge_addr
              old == get_edge_by(edge_allocator, e)
              d == iterator.position
              u == Len(node_allocator)
              rest == Len(edge_allocator)
              leaf == Len(edge_allocator) + 1
              rest_idx == Alphabet_index_of(char_at(expanded_string, old.start_position + d))
              leaf_idx == Alphabet_index_of(char_at(expanded_string, pos))
          IN  /\ 0 < d /\ d < old.length
              /\ Len(node_allocator') = u + 1
              /\ Len(edge_allocator') = leaf + 1
              /\ leaf_addr_allocator' = leaf_addr_allocator - 1
              /\ get_edge_by(edge_allocator', e) =
                    [start_position |-> old.start_position, length |-> d,
                     next_node_addr |-> u]
              /\ get_edge_by(edge_allocator', rest) =
                    [start_position |-> old.start_position + d, length |-> old.length - d,
                     next_node_addr |-> old.next_node_addr]
              /\ get_edge_by(edge_allocator', leaf) =
                    [start_position |-> pos, length |-> N - pos,
                     next_node_addr |-> leaf_addr_allocator']
              /\ rest_idx # leaf_idx
              /\ \A idx \in 0..(Alphabet_size - 1) :
                    child_of(get_node_by(node_allocator', u), idx) =
                        IF idx = rest_idx THEN rest
                        ELSE IF idx = leaf_idx THEN leaf ELSE no_connection
              /\ label_of(ThisTree', get_edge_by(edge_allocator', e))
                    \o label_of(ThisTree', get_edge_by(edge_allocator', rest))
                    = label_of(ThisTree, old)
              /\ \A n \in 0..(u - 1) :
                    get_node_by(node_allocator', n).edges_to_childs
                        = get_node_by(node_allocator, n).edges_to_childs
              /\ \A k \in 0..(rest - 1) :
                    k # e => get_edge_by(edge_allocator', k) = get_edge_by(edge_allocator, k)]_vars

\* C18, its case: the node created last has taken over an inner node as the child
\* of its remainder edge, next to its new leaf
C18_Witness ==
    /\ ValidSource /\ pc = "split_loop"
    /\ last_node_addr = Len(node_allocator) - 1
    /\ LET out == edges_of(node_allocator, last_node_addr)
       IN  /\ Cardinality(out) = 2
           /\ \E r, l \in out :
                 /\ l = Len(edge_allocator) - 1 /\ r = l - 1
                 /\ is_leaf(get_edge_by(edge_allocator, l).next_node_addr)
                 /\ ~is_leaf(get_edge_by(edge_allocator, r).next_node_addr)

\* C19: while a valid source is constructed, in every state between two
\* whole-character steps, for every inner node other than the dummy and every
\* index i, children[i] is no_connection or an allocated edge whose first label
\* character has the index i, so no two edges that leave a node start with the
\* same symbol; and a step changes a child slot only from no_connection to an
\* edge: a leaf edge is only ever attached on an empty slot.
C19_ChildrenBySymbol ==
    /\ []((ValidSource /\ pc \in {"second_stage", "done"}) =>
            \A n \in 0..(Len(node_allocator) - 1) :
               ~is_dummy(node_allocator, root_addr, n) =>
                  /\ \A i \in 0..(Alphabet_size - 1) : slot_in_order(ThisTree, n, i)
                  /\ \A e1, e2 \in edges_of(node_allocator, n) :
                        char_at(expanded_string, get_edge_by(edge_allocator, e1).start_position)
                          = char_at(expanded_string, get_edge_by(edge_allocator, e2).start_position)
                        => e1 = e2)
    /\ [][(ValidSource /\ Constructing) =>
            \A n \in 0..(Len(node_allocator) - 1) : \A i \in 0..(Alphabet_size - 1) :
               LET before == child_of(get_node_by(node_allocator, n), i)
                   after == child_of(get_node_by(node_allocator', n), i)
               IN  after # before =>
                     /\ before = no_connection
                     /\ is_edge_ref(edge_allocator', after)
                     /\ is_leaf(get_edge_by(edge_allocator', after).next_node_addr)]_vars

\* C19, its case: a step has ended with a node below the root that has an edge on
\* every symbol of the alphabet
C19_Witness ==
    /\ ValidSource /\ pc \in {"second_stage", "done"}
    /\ \E v \in split_nodes(node_allocator, root_addr) :
          /\ Cardinality(edges_of(node_allocator, v)) = Alphabet_size
          /\ \A i \in 0..(Alphabet_size - 1) : slot_in_order(ThisTree, v, i)

\* C20: in every state of the construction of a valid source, from the end of
\* initialisation on, the root's suffix connection is the dummy (the node that
\* create_dummy_node allocated right after the root), and for every symbol of the
\* alphabet the dummy's child slot holds an edge of length 1 to the root; no step
\* changes the root's suffix connection, the dummy's slots or these edges; and
\* go_over_one_letter_next from the dummy on any symbol of the alphabet ends at
\* the root with no edge and position 0.
C20_DummyAboveRoot ==
    /\ []((ValidSource /\ pc = "second_stage" /\ pos = 0) =>
            /\ Len(node_allocator) = root_addr + 2
            /\ get_dummy(node_allocator, root_addr) = root_addr + 1)
    /\ []((ValidSource /\ Constructing) =>
            LET dummy_addr == get_dummy(node_allocator, root_addr)
            IN  /\ is_node_ref(node_allocator, dummy_addr)
                /\ dummy_addr # root_addr
                /\ \A i \in 0..(Alphabet_size - 1) :
                      LET e == child_of(get_node_by(node_allocator, dummy_addr), i)
                      IN  /\ is_edge_ref(edge_allocator, e)
                          /\ get_edge_by(edge_allocator, e).length = 1
                          /\ get_edge_by(edge_allocator, e).next_node_addr = root_addr
                /\ \A i \in 1..Alphabet_size :
                      go_over_one_letter_next(
                          [Builder EXCEPT !.it = at_node(dummy_addr)], Letters[i])
                        = [Builder EXCEPT !.it = at_node(root_addr)])
    /\ [][(ValidSource /\ Constructing) =>
            LET dummy_addr == get_dummy(node_allocator, root_addr)
            IN  /\ get_dummy(node_allocator', root_addr') = dummy_addr
                /\ get_node_by(node_allocator', dummy_addr).edges_to_childs
                      = get_node_by(node_allocator, dummy_addr).edges_to_childs
                /\ \A e \in edges_of(node_allocator, dummy_addr) :
                      get_edge_by(edge_allocator', e) = get_edge_by(edge_allocator, e)]_vars

\* C20, its case: stage 2 has returned with the active point at the dummy, and
\* stage 3 is about to advance from it to the root
C20_Witness ==
    /\ ValidSource /\ Stage2Returned /\ pos > 0
    /\ is_dummy(node_allocator, root_addr, iterator.node_addr)
    /\ go_over_one_letter_next(Builder, char_at(expanded_string, pos)).it
          = at_node(root_addr)

\* C21: in every state of the construction of a valid source and when the tree is
\* queried, every edge whose child is a leaf has start + length = N: a leaf edge
\* is created with the length N - start, and the split of a leaf edge leaves the
\* remainder edge, which still leads to the leaf, with start + length = N. No
\* step makes an edge longer.
C21_LeafEdgesReachTheEnd ==
    /\ []((ValidSource /\ (Constructing \/ Answered)) =>
            \A e \in leaf_edges(edge_allocator) :
               get_edge_by(edge_allocator, e).start_position
                 + get_edge_by(edge_allocator, e).length = N)
    /\ [][(ValidSource /\ Constructing) =>
            \A e \in 0..(Len(edge_allocator) - 1) :
               /\ is_edge_ref(edge_allocator', e)
               /\ get_edge_by(edge_allocator', e).length
                    <= get_edge_by(edge_allocator, e).length]_vars

\* C21, its case: the queried tree has a node made by the split of a leaf edge; the
\* remainder edge, allocated right before the node's new leaf edge, leads to the
\* old leaf and ends at N
C21_Witness ==
    /\ ValidSource /\ Answered /\ query.status = "returned"
    /\ \E v \in split_nodes(node_allocator, root_addr) :
          \E r \in edges_of(node_allocator, v) :
             /\ r + 1 \in edges_of(node_allocator, v)
             /\ is_leaf(get_edge_by(edge_allocator, r).next_node_addr)
             /\ get_edge_by(edge_allocator, r).length > 1
             /\ get_edge_by(edge_allocator, r).start_position
                  + get_edge_by(edge_allocator, r).length = N

\* C22: the construction of every valid source terminates with the tree built: no
\* step ends the process before the end (no failed assert, no access outside a
\* container); every step advances: it moves to the next character, or allocates
\* an edge for the same character (a split or a leaf), or leaves the splitting
\* loop, so a stage-2 invocation makes finitely many iterations; every stage-2
\* invocation ends at a position where the new character is present or at the
\* dummy; and after the last character (the terminal) the construction is done
\* with the active point back at the root.
C22_ConstructionTerminates ==
    /\ []((ValidSource /\ builds > 0) =>
            /\ Constructing
            /\ pos <= N
            /\ Len(edge_allocator) <= Alphabet_size + 2 * N
            /\ Stage2Returned =>
                  \/ is_dummy(node_allocator, root_addr, iterator.node_addr)
                  \/ go_over_one_letter_next(Builder,
                                             char_at(expanded_string, pos)).status = "ok"
            /\ pc = "done" => (pos = N /\ iterator = at_node(root_addr)))
    /\ [][(ValidSource /\ Constructing) =>
            \/ pos' = pos + 1
            \/ pos' = pos /\ Len(edge_allocator') > Len(edge_allocator)
            \/ pos' = pos /\ pc \in {"second_stage", "split_loop"}
                          /\ pc' \in {"split_loop", "leaf_loop"} /\ pc' # pc]_vars

\* C22, its case: a construction in which edges were split has ended, after the
\* terminal was added, with the active point at the root
C22_Witness ==
    /\ ValidSource /\ pc = "done" /\ N >= 4
    /\ Len(node_allocator) > 2
    /\ pos = N /\ iterator = at_node(root_addr)

\* C23: while a valid source is constructed, in every state between two
\* whole-character steps, for every edge that leaves a node other than the dummy,
\* the edge's start minus the length of the string from the root to the edge's
\* origin node is the smallest suffix start among the leaves below the edge (so
\* edge.start + depth - |P| is the leftmost occurrence of a pattern P that ends on
\* the edge).
C23_EdgeStartIsLeftmost ==
    (ValidSource /\ pc \in {"second_stage", "done"}) =>
        \A p \in inner_paths(ThisTree, root_addr, <<>>) :
           \A e \in edges_of(node_allocator, p.node) :
              LET edge == get_edge_by(edge_allocator, e)
                  starts == suffix_starts(ThisTree, leaves_below(ThisTree, edge, p.spells))
              IN  /\ starts # {}
                  /\ edge.start_position - Len(p.spells) = min_of(starts)

\* C23, its case: a step has ended with an edge between two nodes below the root
\* whose leaves start at different positions, the smallest of them not 0
C23_Witness ==
    /\ ValidSource /\ pc \in {"second_stage", "done"}
    /\ \E p \in inner_paths(ThisTree, root_addr, <<>>) :
          \E e \in edges_of(node_allocator, p.node) :
             LET edge == get_edge_by(edge_allocator, e)
                 starts == suffix_starts(ThisTree, leaves_below(ThisTree, edge, p.spells))
             IN  /\ p.node # root_addr
                 /\ ~is_leaf(edge.next_node_addr)
                 /\ Cardinality(starts) > 1
                 /\ min_of(starts) > 0
                 /\ edge.start_position - Len(p.spells) = min_of(starts)

\* C24: while a valid source is constructed, in every state between two
\* whole-character steps the arenas encode a tree below the root: every inner node
\* other than the root and the dummy is the child of exactly one edge, every leaf
\* reference is the child of exactly one edge, the root is the child of exactly
\* the k edges of the dummy (k the alphabet's size), no edge leads to the dummy,
\* every edge is held by a child
\* slot (by exactly one), and number of edges = k + number of leaves + (number of
\* inner nodes - 2); and no step makes an arena shorter.
C24_ArenasEncodeATree ==
    /\ []((ValidSource /\ pc \in {"second_stage", "done"}) =>
            LET dummy_addr == get_dummy(node_allocator, root_addr)
            IN  /\ \A v \in split_nodes(node_allocator, root_addr) :
                      Cardinality(edges_into(edge_allocator, v)) = 1
                /\ \A l \in leaf_refs(edge_allocator) :
                      Cardinality(edges_into(edge_allocator, l)) = 1
                /\ edges_into(edge_allocator, root_addr) = edges_of(node_allocator, dummy_addr)
                /\ Cardinality(edges_into(edge_allocator, root_addr)) = Alphabet_size
                /\ edges_into(edge_allocator, dummy_addr) = {}
                /\ \A e \in 0..(Len(edge_allocator) - 1) :
                      Cardinality(slots_of(node_allocator, e)) = 1
                /\ Len(edge_allocator) =
                      Alphabet_size + Cardinality(leaf_refs(edge_allocator))
                                    + (Len(node_allocator) - 2))
    /\ [][(ValidSource /\ Constructing) =>
            /\ Len(node_allocator') >= Len(node_allocator)
            /\ Len(edge_allocator') >= Len(edge_allocator)]_vars

\* C24, its case: a completed tree with two nodes made by splits and a leaf for
\* every suffix
C24_Witness ==
    /\ ValidSource /\ pc = "done"
    /\ Cardinality(split_nodes(node_allocator, root_addr)) >= 2
    /\ Cardinality(leaf_refs(edge_allocator)) = N
    /\ Len(edge_allocator) = Alphabet_size + N + (Len(node_allocator) - 2)

=============================================================================
